---- MODULE Spec2Model ----
(***************************************************************************)
(* Model of ethers-multisend: encodeSingle (intent -> MetaTransaction),    *)
(* encodeMultiSend (list -> one multiSend module transaction) and the      *)
(* MultiSender contract binding that dispatches the result through the     *)
(* avatar's execTransactionFromModule.                                     *)
(*                                                                         *)
(* JavaScript values are tagged tuples so that `||` (truthiness), missing  *)
(* object fields (undefined) and type mismatches are all expressible.      *)
(* Strings are sequences of one-character strings, so '0x' + ..., substr   *)
(* and join are computed on characters; hex strings are lower case.        *)
(* Numbers are big-endian base-256 digit sequences without leading zeros,  *)
(* so a value of 2^256 exists and does not fit a uint256.                  *)
(***************************************************************************)
EXTENDS Integers, Sequences, FiniteSets, TLC

\* ------------------------------------------------------------ bounds
\* longest list of transactions handed to encodeMultiSend / multiSend
MaxBatch == 2

\* ------------------------------------------------------------ widths
\* bytes of an `address` in a packed record
ADDRESS_BYTES == 20
\* bytes of a `uint256` in a packed record and of one ABI word
WORD_BYTES == 32
\* bytes of the `uint8` operation in a packed record
UINT8_BYTES == 1
\* bytes of a function selector
SELECTOR_BYTES == 4

\* ------------------------------------------------------------ JS values
Undefined == <<"undefined">>
Null == <<"null">>
Str(s) == <<"string", s>>
Num(n) == <<"number", n>>
Bool(b) == <<"boolean", b>>
Obj(o) == <<"object", o>>

Zero == <<>>
One == <<1>>

\* JavaScript truthiness: undefined, null, 0, '' and false are falsy
Falsy(v) ==
  CASE v[1] = "undefined" -> TRUE
    [] v[1] = "null" -> TRUE
    [] v[1] = "number" -> v[2] = Zero
    [] v[1] = "string" -> v[2] = <<>>
    [] v[1] = "boolean" -> ~v[2]
    [] OTHER -> FALSE

\* a || b
Or(a, b) == IF Falsy(a) THEN b ELSE a

\* obj[key] of a JavaScript object: undefined when the key is absent
Field(obj, key) == IF key \in DOMAIN obj THEN obj[key] ELSE Undefined

\* the result of a call: a returned value or a thrown error
Ok(v) == <<"ok", v>>
Throw(e) == <<"throw", e>>
IsOk(r) == r[1] = "ok"
IsThrow(r) == r[1] = "throw"

\* ------------------------------------------------------------ bytes and hex
RECURSIVE Flatten(_)
Flatten(ss) == IF Len(ss) = 0 THEN <<>> ELSE Head(ss) \o Flatten(Tail(ss))

Zeros(n) == [i \in 1..n |-> 0]

\* @ethersproject/bytes zeroPad: left-pad to n bytes (callers check Len(b) <= n)
zeroPad(b, n) == Zeros(n - Len(b)) \o b

\* right-pad to a multiple of 32 bytes (the ABI's dynamic data)
padRight(b) == b \o Zeros((WORD_BYTES - (Len(b) % WORD_BYTES)) % WORD_BYTES)

RECURSIVE stripZeros(_)
stripZeros(b) == IF Len(b) > 0 /\ Head(b) = 0 THEN stripZeros(Tail(b)) ELSE b

\* the digits of a small natural number
RECURSIVE NatDigits(_)
NatDigits(n) == IF n = 0 THEN <<>> ELSE Append(NatDigits(n \div 256), n % 256)

\* the natural number of (few) digits
RECURSIVE DigitsNat(_)
DigitsNat(d) ==
  IF Len(d) = 0 THEN 0 ELSE DigitsNat(SubSeq(d, 1, Len(d) - 1)) * 256 + d[Len(d)]

HexDigits ==
  <<"0", "1", "2", "3", "4", "5", "6", "7", "8", "9", "a", "b", "c", "d", "e", "f">>
HexChars == {HexDigits[i] : i \in 1..Len(HexDigits)}
HexVal(c) == (CHOOSE i \in 1..Len(HexDigits) : HexDigits[i] = c) - 1

OxPrefix == <<"0", "x">>

\* @ethersproject/bytes hexlify of a byte array: '0x' and two digits per byte
hexlify(b) ==
  OxPrefix \o
  [i \in 1..(2 * Len(b)) |->
     IF i % 2 = 1 THEN HexDigits[(b[(i + 1) \div 2] \div 16) + 1]
     ELSE HexDigits[(b[i \div 2] % 16) + 1]]

\* @ethersproject/bytes isHexString
isHexString(s) ==
  /\ Len(s) >= 2
  /\ SubSeq(s, 1, 2) = OxPrefix
  /\ \A i \in 3..Len(s) : s[i] \in HexChars

\* a hex string that arrayify accepts: whole bytes
isBytesLike(s) == isHexString(s) /\ Len(s) % 2 = 0

\* @ethersproject/bytes arrayify of a hex string (callers check isBytesLike)
arrayify(s) ==
  [i \in 1..((Len(s) - 2) \div 2) |-> 16 * HexVal(s[2 * i + 1]) + HexVal(s[2 * i + 2])]

\* @ethersproject/bytes hexDataLength: the byte count, or null for a non-hex string
hexDataLength(v) ==
  IF v[1] = "string" /\ isBytesLike(v[2]) THEN Num(NatDigits((Len(v[2]) - 2) \div 2))
  ELSE Null

\* a string that is a 20-byte hex address
isAddress(v) == v[1] = "string" /\ isBytesLike(v[2]) /\ Len(v[2]) = 2 + 2 * ADDRESS_BYTES

\* a number that fits `width` bytes
fitsUint(v, width) == v[1] = "number" /\ Len(v[2]) <= width

\* the ASCII code of the characters the model's strings are made of
Ascii(c) ==
  IF c = "x" THEN 120
  ELSE IF HexVal(c) < 10 THEN 48 + HexVal(c) ELSE 87 + HexVal(c)
toUtf8Bytes(s) == [i \in 1..Len(s) |-> Ascii(s[i])]

\* ------------------------------------------------------------ ABI coding
IsDynamic(type) == type \in {"bytes", "string"}

\* a dynamic value of the ABI: its byte count in a word, then its bytes padded to words
dynamicBytes(b) == zeroPad(NatDigits(Len(b)), WORD_BYTES) \o padRight(b)

\* the coders of @ethersproject/abi.  A static coder gives one word, a dynamic
\* one its length-prefixed data.  The address and number coders throw on a value
\* that is not an address / does not fit; the boolean coder writes `value ? 1 : 0`
\* for any value; the string coder walks value.length, which a non-string lacks.
Coder(type, v) ==
  CASE type = "address" ->
         IF isAddress(v) THEN Ok(zeroPad(arrayify(v[2]), WORD_BYTES))
         ELSE Throw("invalid address")
    [] type = "uint256" ->
         IF fitsUint(v, WORD_BYTES) THEN Ok(zeroPad(v[2], WORD_BYTES))
         ELSE Throw("invalid BigNumber value")
    [] type = "uint8" ->
         IF fitsUint(v, UINT8_BYTES) THEN Ok(zeroPad(v[2], WORD_BYTES))
         ELSE Throw("value out-of-bounds")
    [] type = "bool" ->
         Ok(zeroPad(IF Falsy(v) THEN Zero ELSE One, WORD_BYTES))
    [] type = "bytes" ->
         IF v[1] = "string" /\ isBytesLike(v[2]) THEN Ok(dynamicBytes(arrayify(v[2])))
         ELSE Throw("invalid arrayify value")
    [] type = "string" ->
         Ok(dynamicBytes(IF v[1] = "string" THEN toUtf8Bytes(v[2]) ELSE <<>>))

\* AbiCoder.encode: the heads (a static value, or the offset of a dynamic one),
\* then the tails of the dynamic values, in order
AbiEncode(types, values) ==
  LET n == Len(types)
      enc == [i \in 1..n |-> Coder(types[i], values[i])]
      bad == {i \in 1..n : IsThrow(enc[i])}
      tail == [i \in 1..n |-> IF IsDynamic(types[i]) THEN enc[i][2] ELSE <<>>]
      tailLen[i \in 0..n] == IF i = 0 THEN 0 ELSE tailLen[i - 1] + Len(tail[i])
      head == [i \in 1..n |->
                 IF IsDynamic(types[i])
                 THEN zeroPad(NatDigits(WORD_BYTES * n + tailLen[i - 1]), WORD_BYTES)
                 ELSE enc[i][2]]
  IN  IF Len(values) # n THEN Throw("types/values length mismatch")
      ELSE IF bad # {} THEN enc[CHOOSE i \in bad : \A j \in bad : i <= j]
      ELSE Ok(Flatten(head) \o Flatten(tail))

\* the 4-byte selectors (keccak256 of the signature) of the functions of the model
Selector(sig) ==
  CASE sig = "transfer(address,uint256)" -> <<169, 5, 156, 187>>
    [] sig = "safeTransferFrom(address,address,uint256)" -> <<66, 132, 46, 14>>
    [] sig = "multiSend(bytes)" -> <<141, 128, 255, 10>>
    [] sig = "approve(address,uint256)" -> <<9, 94, 167, 179>>
    [] sig = "setApprovalForAll(address,bool)" -> <<162, 44, 180, 101>>
    [] sig = "setName(string)" -> <<196, 127, 0, 39>>
    [] sig = "execTransactionFromModule(address,uint256,bytes,uint8)" ->
         <<70, 135, 33, 167>>

\* a function fragment of an Interface
Fragment(name, sig, inputs) == [name |-> name, sig |-> sig, inputs |-> inputs]
Param(name, type) == [name |-> name, type |-> type]
ParamTypes(fragment) == [i \in 1..Len(fragment.inputs) |-> fragment.inputs[i].type]

\* Interface.functions: the fragments keyed by their canonical signature
InterfaceFunctions(abi) ==
  [s \in {abi[i].sig : i \in 1..Len(abi)} |->
     abi[CHOOSE i \in 1..Len(abi) : abi[i].sig = s]]

\* Interface.encodeFunctionData(nameOrSignature, values): the function is found by
\* its signature or its bare name; the calldata is the selector and the arguments
encodeFunctionData(abi, nameOrSignature, values) ==
  LET matches == {i \in 1..Len(abi) :
                    abi[i].sig = nameOrSignature \/ abi[i].name = nameOrSignature}
  IN  IF matches = {} THEN Throw("no matching function")
      ELSE LET fragment == abi[CHOOSE i \in matches : TRUE]
               enc == AbiEncode(ParamTypes(fragment), values)
           IN  IF IsThrow(enc) THEN enc
               ELSE Ok(Str(hexlify(Selector(fragment.sig) \o enc[2])))

\* @ethersproject/solidity pack: each value at its natural width, no padding
packValue(type, v) ==
  CASE type = "uint8" ->
         IF fitsUint(v, UINT8_BYTES) THEN Ok(zeroPad(v[2], UINT8_BYTES))
         ELSE Throw("value out of range")
    [] type = "address" ->
         IF isAddress(v) THEN Ok(arrayify(v[2])) ELSE Throw("invalid address")
    [] type = "uint256" ->
         IF fitsUint(v, WORD_BYTES) THEN Ok(zeroPad(v[2], WORD_BYTES))
         ELSE Throw("value out of range")
    [] type = "bytes" ->
         IF v[1] = "string" /\ isBytesLike(v[2]) THEN Ok(arrayify(v[2]))
         ELSE Throw("invalid arrayify value")

pack(types, values) ==
  LET enc == [i \in 1..Len(types) |-> packValue(types[i], values[i])]
      bad == {i \in 1..Len(types) : IsThrow(enc[i])}
  IN  IF bad # {} THEN enc[CHOOSE i \in bad : \A j \in bad : i <= j]
      ELSE Ok(Str(hexlify(Flatten([i \in 1..Len(types) |-> enc[i][2]]))))

\* ------------------------------------------------------------ readers
\* What a contract reads back from calldata; used to state the claims.
wordAt(b, offset) == SubSeq(b, offset + 1, offset + WORD_BYTES)
\* a word as a number; one beyond three bytes is read as 2^24, more than any
\* calldata of the model holds
wordNat(b, offset) ==
  LET digits == stripZeros(wordAt(b, offset))
  IN  IF Len(digits) > 3 THEN 16777216 ELSE DigitsNat(digits)

\* the i-th argument of ABI-encoded arguments `b` of the given types
AbiDecodeOne(types, b, i) ==
  LET at == WORD_BYTES * (i - 1)
      type == types[i]
  IN  CASE type = "address" ->
             Str(hexlify(SubSeq(wordAt(b, at), WORD_BYTES - ADDRESS_BYTES + 1, WORD_BYTES)))
        [] type = "uint256" -> Num(stripZeros(wordAt(b, at)))
        [] type = "bool" -> Bool(stripZeros(wordAt(b, at)) # Zero)
        [] type = "bytes" ->
             LET off == wordNat(b, at)
                 len == wordNat(b, off)
             IN  Str(hexlify(SubSeq(b, off + WORD_BYTES + 1, off + WORD_BYTES + len)))

\* calldata (a hex string value) split into its selector and decoded arguments
decodeFunctionData(types, data) ==
  LET b == arrayify(data[2])
      args == SubSeq(b, SELECTOR_BYTES + 1, Len(b))
  IN  [selector |-> SubSeq(b, 1, SELECTOR_BYTES),
       args |-> [i \in 1..Len(types) |-> AbiDecodeOne(types, args, i)]]

\* the fixed part of a packed record: operation, to, value, data length
RecordHeaderBytes == UINT8_BYTES + ADDRESS_BYTES + WORD_BYTES + WORD_BYTES

\* The MultiSend contract's walk over the packed blob: read a record's header,
\* take `data length` bytes of data, continue right after them.
RECURSIVE unpackRecords(_)
unpackRecords(b) ==
  IF Len(b) = 0 THEN Ok(<<>>)
  ELSE IF Len(b) < RecordHeaderBytes THEN Throw("truncated record")
  ELSE LET toAt == UINT8_BYTES
           valueAt == toAt + ADDRESS_BYTES
           lengthAt == valueAt + WORD_BYTES
           n == wordNat(b, lengthAt)
           size == RecordHeaderBytes + n
       IN  IF Len(b) < size THEN Throw("truncated data")
           ELSE LET rest == unpackRecords(SubSeq(b, size + 1, Len(b)))
                    record == [operation |-> Num(stripZeros(SubSeq(b, 1, UINT8_BYTES))),
                               to |-> Str(hexlify(SubSeq(b, toAt + 1, toAt + ADDRESS_BYTES))),
                               value |-> Num(stripZeros(wordAt(b, valueAt))),
                               data |-> Str(hexlify(SubSeq(b, RecordHeaderBytes + 1, size))),
                               dataLength |-> n,
                               size |-> size]
                IN  IF IsThrow(rest) THEN rest ELSE Ok(<<record>> \o rest[2])

\* ------------------------------------------------------------ encodeSingle
\* enum Operation of ./types
CALL == Num(Zero)
DELEGATE_CALL == Num(One)

erc20Interface ==
  <<Fragment("transfer", "transfer(address,uint256)",
             <<Param("recipient", "address"), Param("amount", "uint256")>>)>>

\* a slip: the token contract as the recipient of the transfer
encodeErc20Transfer_tokenAsRecipient(tx) ==
  encodeFunctionData(erc20Interface, "transfer(address,uint256)",
                     <<Field(tx, "token"), Field(tx, "amount")>>)

encodeErc20Transfer(tx) ==
  encodeFunctionData(erc20Interface, "transfer(address,uint256)",
                     <<Field(tx, "to"), Field(tx, "amount")>>)

erc721Interface ==
  <<Fragment("safeTransferFrom", "safeTransferFrom(address,address,uint256)",
             <<Param("_from", "address"), Param("_to", "address"),
               Param("_tokenId", "uint256")>>)>>

encodeErc721Transfer(tx) ==
  encodeFunctionData(erc721Interface, "safeTransferFrom(address,address,uint256)",
                     <<Field(tx, "from"), Field(tx, "to"), Field(tx, "tokenId")>>)

ZeroAddress == Str(hexlify(Zeros(ADDRESS_BYTES)))

\* abiCoder._getCoder(paramType).defaultValue()
defaultValue(paramType) ==
  CASE paramType.type = "address" -> ZeroAddress
    [] paramType.type = "uint256" -> Num(Zero)
    [] paramType.type = "bool" -> Bool(FALSE)
    [] paramType.type = "bytes" -> Str(OxPrefix)
    [] paramType.type = "string" -> Str(<<>>)

\* tx.inputValues[input.name] || defaultValue(input)
inputValue(tx, input) == Or(Field(tx.inputValues, input.name), defaultValue(input))

\* the `values` of encodeFunctionCall: iface.functions[tx.functionSignature] is
\* undefined for an unknown signature, and reading its .inputs throws
encodeFunctionCallValues(tx) ==
  LET functions == InterfaceFunctions(tx.abi)
  IN  IF tx.functionSignature \notin DOMAIN functions
      THEN Throw("TypeError: cannot read properties of undefined (reading 'inputs')")
      ELSE LET inputs == functions[tx.functionSignature].inputs
           IN  Ok([i \in 1..Len(inputs) |-> inputValue(tx, inputs[i])])

\* a slip: an unknown signature read with `?.` and encoded as empty calldata
encodeFunctionCall_emptyOnUnknown(tx) ==
  LET values == encodeFunctionCallValues(tx)
  IN  IF IsThrow(values) THEN Ok(Str(OxPrefix))
      ELSE encodeFunctionData(tx.abi, tx.functionSignature, values[2])

encodeFunctionCall(tx) ==
  LET values == encodeFunctionCallValues(tx)
  IN  IF IsThrow(values) THEN values
      ELSE encodeFunctionData(tx.abi, tx.functionSignature, values[2])

MetaTransaction(to, value, data) == [to |-> to, value |-> value, data |-> data]

\* the string '0' of the source is the number zero
encodeSingle(tx) ==
  CASE tx.type = "transferFunds" ->
         IF Field(tx, "token") = Null
         THEN Ok(MetaTransaction(Field(tx, "to"), Field(tx, "amount"), Str(OxPrefix)))
         ELSE LET data == encodeErc20Transfer(tx)
              IN  IF IsThrow(data) THEN data
                  ELSE Ok(MetaTransaction(Field(tx, "token"), Num(Zero), data[2]))
    [] tx.type = "transferCollectible" ->
         LET data == encodeErc721Transfer(tx)
         IN  IF IsThrow(data) THEN data
             ELSE Ok(MetaTransaction(Field(tx, "address"), Num(Zero), data[2]))
    [] tx.type = "callContract" ->
         LET data == encodeFunctionCall(tx)
         IN  IF IsThrow(data) THEN data
             ELSE Ok(MetaTransaction(Field(tx, "to"), Or(Field(tx, "value"), Num(Zero)),
                                     data[2]))
    [] tx.type = "raw" ->
         Ok(MetaTransaction(Field(tx, "to"), Or(Field(tx, "value"), Num(Zero)),
                            Or(Field(tx, "data"), Str(OxPrefix))))

\* ------------------------------------------------------------ encodeMultiSend
MULTI_SEND_ABI ==
  <<Fragment("multiSend", "multiSend(bytes)", <<Param("transactions", "bytes")>>)>>

AVATAR_ABI ==
  <<Fragment("execTransactionFromModule",
             "execTransactionFromModule(address,uint256,bytes,uint8)",
             <<Param("to", "address"), Param("value", "uint256"), Param("data", "bytes"),
               Param("operation", "uint8")>>)>>

\* 0x8D29bE29923b68abfDD21e541b9374737B49cdAD
MULTI_SEND_CONTRACT_ADDRESS ==
  Str(hexlify(<<141, 41, 190, 41, 146, 59, 104, 171, 253, 210, 30, 84, 27, 147, 116,
                115, 123, 73, 205, 173>>))

ModuleTransaction(operation, to, value, data) ==
  [operation |-> operation, to |-> to, value |-> value, data |-> data]

\* BigNumber.from(0) is the number zero
coerceTransactionInput(tx) ==
  ModuleTransaction(Or(Field(tx, "operation"), CALL),
                    Field(tx, "to"),
                    Or(Field(tx, "value"), Num(Zero)),
                    Or(Field(tx, "data"), Str(OxPrefix)))

\* a slip: the length of `data` left out of the record
encodePacked_noLength(transactionInput) ==
  LET tx == coerceTransactionInput(transactionInput)
  IN  pack(<<"uint8", "address", "uint256", "bytes">>,
           <<Or(tx.operation, CALL), tx.to, Or(tx.value, Num(Zero)), tx.data>>)

encodePacked(transactionInput) ==
  LET tx == coerceTransactionInput(transactionInput)
  IN  pack(<<"uint8", "address", "uint256", "uint256", "bytes">>,
           <<Or(tx.operation, CALL),
             tx.to,
             Or(tx.value, Num(Zero)),
             hexDataLength(tx.data),
             tx.data>>)

\* hexString.substr(2)
remove0x(hexString) == SubSeq(hexString, 3, Len(hexString))

\* '0x' + transactions.map(encodePacked).map(remove0x).join(''): the first
\* encodePacked that throws ends the call
transactionsEncoded(transactions) ==
  LET packed == [i \in 1..Len(transactions) |-> encodePacked(transactions[i])]
      bad == {i \in 1..Len(transactions) : IsThrow(packed[i])}
  IN  IF bad # {} THEN packed[CHOOSE i \in bad : \A j \in bad : i <= j]
      ELSE Ok(Str(OxPrefix \o
                  Flatten([i \in 1..Len(transactions) |-> remove0x(packed[i][2][2])])))

\* the second parameter and its default value
defaultMultiSendContractAddress(multiSendContractAddress) ==
  IF multiSendContractAddress = Undefined THEN MULTI_SEND_CONTRACT_ADDRESS
  ELSE multiSendContractAddress

\* a slip: the address argument used as it is, without `|| MULTI_SEND_CONTRACT_ADDRESS`
encodeMultiSend_noFallback(transactions, multiSendContractAddressArg) ==
  LET multiSendContractAddress == defaultMultiSendContractAddress(multiSendContractAddressArg)
      encoded == transactionsEncoded(transactions)
  IN  IF IsThrow(encoded) THEN encoded
      ELSE LET data == encodeFunctionData(MULTI_SEND_ABI, "multiSend", <<encoded[2]>>)
           IN  IF IsThrow(data) THEN data
               ELSE Ok(ModuleTransaction(DELEGATE_CALL, multiSendContractAddress,
                                         Num(Zero), data[2]))

encodeMultiSend(transactions, multiSendContractAddressArg) ==
  LET multiSendContractAddress == defaultMultiSendContractAddress(multiSendContractAddressArg)
      encoded == transactionsEncoded(transactions)
  IN  IF IsThrow(encoded) THEN encoded
      ELSE LET data == encodeFunctionData(MULTI_SEND_ABI, "multiSend", <<encoded[2]>>)
           IN  IF IsThrow(data) THEN data
               ELSE Ok(ModuleTransaction(DELEGATE_CALL,
                                         Or(multiSendContractAddress,
                                            MULTI_SEND_CONTRACT_ADDRESS),
                                         Num(Zero),
                                         data[2]))

\* ------------------------------------------------------------ MultiSender
\* a slip: an empty list refused
multiSendModuleTx_emptyThrows(transactions, multiSendContractAddress) ==
  IF Len(transactions) = 0 THEN Throw("no transactions")
  ELSE IF Len(transactions) = 1 THEN Ok(coerceTransactionInput(transactions[1]))
  ELSE encodeMultiSend(transactions, multiSendContractAddress)

\* moduleTx of multiSend: the lone transaction coerced, or the batch wrapped
multiSendModuleTx(transactions, multiSendContractAddress) ==
  IF Len(transactions) = 1 THEN Ok(coerceTransactionInput(transactions[1]))
  ELSE encodeMultiSend(transactions, multiSendContractAddress)

\* the invocations of this.execTransactionFromModule that one multiSend makes
execInvocations(moduleTx, overrides) ==
  <<[to |-> moduleTx.to, value |-> moduleTx.value, data |-> moduleTx.data,
     operation |-> moduleTx.operation, overrides |-> overrides]>>

\* What the Contract binding made with AVATAR_ABI does with an invocation: it
\* encodes the arguments into the calldata of the transaction to the avatar, and
\* rejects, sending nothing, when they cannot be encoded
execTransactionFromModule(call) ==
  encodeFunctionData(AVATAR_ABI, "execTransactionFromModule",
                     <<call.to, call.value, call.data, call.operation>>)

\* a slip: a failure caught and turned into a result
multiSendResult_swallow(outcome) == IF IsThrow(outcome) THEN Ok("failed") ELSE outcome

\* `return await this.execTransactionFromModule(...)`: the outcome as it is
multiSendResult(outcome) == outcome

\* the `overrides` parameter and its default value {}
defaultOverrides(overrides) == IF overrides = Undefined THEN Obj({}) ELSE overrides

\* ------------------------------------------------------------ inputs
\* 0xaaaa...aa01, 0xaaaa...aa02: accounts; 0xbbbb...bb01: a token contract;
\* 0xcccc...cc01: a caller's own relay contract
Address(fill, last) == Str(hexlify([i \in 1..ADDRESS_BYTES |-> IF i = ADDRESS_BYTES THEN last ELSE fill]))
Account1 == Address(170, 1)
Account2 == Address(170, 2)
Token == Address(187, 1)
CustomRelay == Address(204, 1)
\* '0xzz': not an address
BadAddress == Str(<<"0", "x", "z", "z">>)
\* '0x1234'
SomeData == Str(hexlify(<<18, 52>>))
\* 2^256, one more than a uint256 holds
TooBig == One \o Zeros(WORD_BYTES)

Operations == {Undefined, CALL, DELEGATE_CALL}

UserAbi ==
  <<Fragment("approve", "approve(address,uint256)",
             <<Param("spender", "address"), Param("amount", "uint256")>>),
    Fragment("setApprovalForAll", "setApprovalForAll(address,bool)",
             <<Param("operator", "address"), Param("approved", "bool")>>),
    Fragment("setName", "setName(string)", <<Param("name", "string")>>)>>

\* a signature UserAbi does not hold
UnknownSignature == "mint(uint256)"

\* what a caller may put under a parameter's name; Undefined is a missing key
InputValueChoices ==
  {Undefined, Num(Zero), Num(One), Bool(FALSE), Bool(TRUE), Str(<<>>), Str(OxPrefix),
   Account2}

InputValueSets ==
  UNION {[{UserAbi[i].inputs[j].name : j \in 1..Len(UserAbi[i].inputs)} -> InputValueChoices] :
           i \in 1..Len(UserAbi)}

TransferFundsIntents ==
  {[type |-> "transferFunds", to |-> to, amount |-> Num(amount), token |-> token,
    operation |-> operation] :
     to \in {Account1, BadAddress}, amount \in {Zero, One, TooBig},
     token \in {Null, Token}, operation \in Operations}

TransferCollectibleIntents ==
  {[type |-> "transferCollectible", from |-> Account1, to |-> to, address |-> Token,
    tokenId |-> Num(tokenId), operation |-> operation] :
     to \in {Account2, BadAddress}, tokenId \in {One, TooBig},
     operation \in {Undefined, DELEGATE_CALL}}

CallContractIntents ==
  {[type |-> "callContract", to |-> Account1, value |-> value, abi |-> UserAbi,
    functionSignature |-> functionSignature, inputValues |-> inputValues] :
     value \in {Undefined, Num(One)},
     functionSignature \in {UserAbi[i].sig : i \in 1..Len(UserAbi)} \cup {UnknownSignature},
     inputValues \in InputValueSets}

RawIntents ==
  {[type |-> "raw", to |-> to, value |-> value, data |-> data, operation |-> operation] :
     to \in {Account1, BadAddress},
     value \in {Undefined, Num(Zero), Num(One), Num(TooBig)},
     data \in {Undefined, Str(OxPrefix), SomeData},
     operation \in Operations}

Intents ==
  TransferFundsIntents \cup TransferCollectibleIntents \cup CallContractIntents
    \cup RawIntents

\* the intents that lists are made of: every variant, with and without an
\* operation of its own, and two that cannot be encoded
BatchIntents ==
  {[type |-> "raw", to |-> Account1, value |-> Num(One), data |-> Undefined,
    operation |-> Undefined],
   [type |-> "raw", to |-> Account2, value |-> Undefined, data |-> SomeData,
    operation |-> DELEGATE_CALL],
   [type |-> "transferFunds", to |-> Account1, amount |-> Num(One), token |-> Token,
    operation |-> Undefined],
   [type |-> "transferCollectible", from |-> Account1, to |-> Account2, address |-> Token,
    tokenId |-> Num(One), operation |-> DELEGATE_CALL],
   [type |-> "callContract", to |-> Account1, value |-> Undefined, abi |-> UserAbi,
    functionSignature |-> UnknownSignature,
    inputValues |-> [spender |-> Account2, amount |-> Num(One)]],
   [type |-> "raw", to |-> BadAddress, value |-> Num(TooBig), data |-> Undefined,
    operation |-> Undefined]}

Batches == UNION {[1..n -> BatchIntents] : n \in 0..MaxBatch}

\* the relay address a caller hands to encodeMultiSend or to the constructor
RelayArgs == {Undefined, Str(<<>>), CustomRelay}

\* the overrides a caller hands to multiSend
OverridesArgs == {Undefined, Obj({<<"from", Account2>>, <<"gasLimit", Num(One)>>})}

\* what the avatar's execTransactionFromModule comes back with
ExecOutcomes == {Ok("transaction response"), Throw("transaction reverted")}

\* ------------------------------------------------------------ state
VARIABLES
  multiSendContractAddress, \* this.multiSendContractAddress of the MultiSender
  pc,             \* "idle", "constructed", "await" (multiSend at its await), "returned"
  op,             \* the function called: "none", "encodeSingle", "encodeMultiSend", "multiSend"
  intent,         \* encodeSingle's tx
  transactions,   \* encodeMultiSend's and multiSend's transactions
  relayArg,       \* encodeMultiSend's multiSendContractAddress argument
  overridesArg,   \* multiSend's overrides argument
  abiValues,      \* the values encodeFunctionCall hands to encodeFunctionData
  execCalls,      \* the invocations of execTransactionFromModule of this call
  sent,           \* the transactions sent to the avatar in this call
  execOutcome,    \* what execTransactionFromModule came back with
  ret             \* what the call returned or threw

vars ==
  <<multiSendContractAddress, pc, op, intent, transactions, relayArg, overridesArg,
    abiValues, execCalls, sent, execOutcome, ret>>

NoIntent == [type |-> "none"]
Nothing == <<"nothing">>

\* the MultiSender's constructor: the second parameter and its default value
Constructor(multiSendContractAddressArg) ==
  IF multiSendContractAddressArg = Undefined THEN MULTI_SEND_CONTRACT_ADDRESS
  ELSE multiSendContractAddressArg

\* no MultiSender yet
Init ==
  /\ multiSendContractAddress = Nothing
  /\ pc = "idle"
  /\ op = "none"
  /\ intent = NoIntent
  /\ transactions = <<>>
  /\ relayArg = Undefined
  /\ overridesArg = Undefined
  /\ abiValues = Nothing
  /\ execCalls = <<>>
  /\ sent = <<>>
  /\ execOutcome = Nothing
  /\ ret = Nothing

\* a caller constructs a MultiSender
Construct ==
  /\ pc = "idle"
  /\ \E address \in RelayArgs : multiSendContractAddress' = Constructor(address)
  /\ pc' = "constructed"
  /\ UNCHANGED <<op, intent, transactions, relayArg, overridesArg, abiValues, execCalls,
                 sent, execOutcome, ret>>

\* a caller calls encodeSingle(tx)
CallEncodeSingle ==
  /\ pc = "idle"
  /\ \E tx \in Intents :
       /\ intent' = tx
       /\ abiValues' = IF tx.type = "callContract" THEN encodeFunctionCallValues(tx)
                       ELSE Nothing
       /\ ret' = encodeSingle(tx)
  /\ op' = "encodeSingle"
  /\ pc' = "returned"
  /\ UNCHANGED <<multiSendContractAddress, transactions, relayArg, overridesArg,
                 execCalls, sent, execOutcome>>

\* a caller calls encodeMultiSend(transactions, multiSendContractAddress)
CallEncodeMultiSend ==
  /\ pc = "idle"
  /\ \E txs \in Batches, address \in RelayArgs :
       /\ transactions' = txs
       /\ relayArg' = address
       /\ ret' = encodeMultiSend(txs, address)
  /\ op' = "encodeMultiSend"
  /\ pc' = "returned"
  /\ UNCHANGED <<multiSendContractAddress, intent, overridesArg, abiValues, execCalls,
                 sent, execOutcome>>

\* a caller calls multiSender.multiSend(transactions, overrides): the module
\* transaction is built and execTransactionFromModule invoked, or the encoding
\* throws and the promise is rejected
CallMultiSend ==
  /\ pc = "constructed"
  /\ \E txs \in Batches, o \in OverridesArgs :
       LET overrides == defaultOverrides(o)
           moduleTx == multiSendModuleTx(txs, multiSendContractAddress)
       IN  /\ transactions' = txs
           /\ overridesArg' = o
           /\ IF IsOk(moduleTx)
              THEN /\ execCalls' = execInvocations(moduleTx[2], overrides)
                   /\ ret' = Nothing
                   /\ pc' = "await"
              ELSE /\ execCalls' = <<>>
                   /\ ret' = moduleTx
                   /\ pc' = "returned"
  /\ op' = "multiSend"
  /\ UNCHANGED <<multiSendContractAddress, intent, relayArg, abiValues, sent,
                 execOutcome>>

\* execTransactionFromModule settles and multiSend returns its outcome: the
\* binding rejects arguments it cannot encode, or sends the transaction, which
\* the avatar and the network answer as they will
ExecSettles ==
  /\ pc = "await"
  /\ LET calldata == execTransactionFromModule(execCalls[1])
     IN  IF IsThrow(calldata)
         THEN /\ sent' = sent
              /\ execOutcome' = calldata
              /\ ret' = multiSendResult(calldata)
         ELSE /\ sent' = Append(sent, [data |-> calldata[2],
                                       overrides |-> execCalls[1].overrides])
              /\ \E outcome \in ExecOutcomes :
                   /\ execOutcome' = outcome
                   /\ ret' = multiSendResult(outcome)
  /\ pc' = "returned"
  /\ UNCHANGED <<multiSendContractAddress, op, intent, transactions, relayArg,
                 overridesArg, abiValues, execCalls>>

\* the caller has its result and drops the MultiSender; the next call starts
\* from scratch
Return ==
  /\ pc = "returned"
  /\ multiSendContractAddress' = Nothing
  /\ pc' = "idle"
  /\ op' = "none"
  /\ intent' = NoIntent
  /\ transactions' = <<>>
  /\ relayArg' = Undefined
  /\ overridesArg' = Undefined
  /\ abiValues' = Nothing
  /\ execCalls' = <<>>
  /\ sent' = <<>>
  /\ execOutcome' = Nothing
  /\ ret' = Nothing

Next ==
  \/ Construct
  \/ CallEncodeSingle
  \/ CallEncodeMultiSend
  \/ CallMultiSend
  \/ ExecSettles
  \/ Return

Spec == Init /\ [][Next]_vars

\* ------------------------------------------------------------ claims
Returned(function) == pc = "returned" /\ op = function

\* multiSend has built its module transaction or thrown
Dispatching == op = "multiSend" /\ pc \in {"await", "returned"}

\* the signatures of the functions of an ABI
Signatures(abi) == {abi[i].sig : i \in 1..Len(abi)}

\* the bytes handed to multiSend(bytes) in the calldata `data`
PackedBlob(data) == arrayify(decodeFunctionData(<<"bytes">>, data).args[1][2])

\* calldata of a multiSend(bytes) call
IsMultiSendCall(data) ==
  /\ data[1] = "string"
  /\ isBytesLike(data[2])
  /\ Len(data[2]) >= 2 + 2 * 4
  /\ SubSeq(arrayify(data[2]), 1, 4) = <<141, 128, 255, 10>>

\* a call through the relay contract: a delegate call of multiSend(bytes)
RelayWrapped(call) == call.operation = DELEGATE_CALL /\ IsMultiSendCall(call.data)

\* the relay address in force for a caller's choice: the choice when it is a
\* non-empty string, the fixed default otherwise
RelayFor(choice) ==
  IF choice[1] = "string" /\ Len(choice[2]) > 0 THEN choice
  ELSE MULTI_SEND_CONTRACT_ADDRESS

\* an intent's declared operation, CALL when it declares none
DeclaredOperation(x) ==
  IF Field(x, "operation") = Undefined THEN CALL ELSE Field(x, "operation")

\* ---- C4
\* C4: encodeSingle on a TransferValue intent: with token = null the result is
\* to = intent.to, value = intent.amount, data = empty; with a token, a result
\* exists exactly when the recipient is an address and the amount fits a
\* uint256, and it is to = intent.token, value = 0, data = the call
\* transfer(address,uint256) whose decoded arguments are (intent.to, intent.amount).
C4_TransferValue ==
  (Returned("encodeSingle") /\ intent.type = "transferFunds") =>
    IF intent.token = Null
    THEN /\ IsOk(ret)
         /\ ret[2].to = intent.to
         /\ ret[2].value = intent.amount
         /\ ret[2].data = Str(<<"0", "x">>)
    ELSE /\ IsOk(ret) <=> (isAddress(intent.to) /\ Len(intent.amount[2]) <= 32)
         /\ IsOk(ret) =>
              /\ ret[2].to = intent.token
              /\ ret[2].value = Num(Zero)
              /\ LET call == decodeFunctionData(<<"address", "uint256">>, ret[2].data)
                 IN  /\ call.selector = <<169, 5, 156, 187>>
                     /\ call.args = <<intent.to, intent.amount>>
                     /\ Len(arrayify(ret[2].data[2])) = 4 + 32 + 32

C4_Witness ==
  /\ Returned("encodeSingle")
  /\ intent.type = "transferFunds"
  /\ intent.token = Token
  /\ intent.amount = Num(One)
  /\ IsOk(ret)

\* ---- C8
\* C8: encodeSingle on a CallContract intent whose functionSignature is not a
\* function of the supplied ABI throws and returns no call, whatever inputValues holds.
C8_UnknownSignatureThrows ==
  (/\ Returned("encodeSingle")
   /\ intent.type = "callContract"
   /\ intent.functionSignature \notin Signatures(intent.abi)) => IsThrow(ret)

C8_Witness ==
  /\ Returned("encodeSingle")
  /\ intent.type = "callContract"
  /\ intent.functionSignature \notin Signatures(intent.abi)
  /\ intent.inputValues = [spender |-> Account2, amount |-> Num(One)]
  /\ IsThrow(ret)

\* ---- C5
\* the canonical zero value of a parameter type
CanonicalZero(type) ==
  CASE type = "uint256" -> Num(Zero)
    [] type = "address" -> Str(hexlify([i \in 1..20 |-> 0]))
    [] type = "bool" -> Bool(FALSE)
    [] type = "bytes" -> Str(<<"0", "x">>)
    [] type = "string" -> Str(<<>>)

\* C5: encodeSingle on a CallContract intent whose functionSignature is in the
\* ABI hands the ABI encoder one value per declared input, in declared order:
\* the value supplied under the input's name when there is one (also a supplied
\* 0, false or empty value), the type's canonical zero value when there is none.
C5_SuppliedOrDefault ==
  (/\ Returned("encodeSingle")
   /\ intent.type = "callContract"
   /\ intent.functionSignature \in Signatures(intent.abi)) =>
    LET abi == intent.abi
        inputs == abi[CHOOSE i \in 1..Len(abi) : abi[i].sig = intent.functionSignature].inputs
    IN  /\ IsOk(abiValues)
        /\ Len(abiValues[2]) = Len(inputs)
        /\ \A i \in 1..Len(inputs) :
             LET supplied == Field(intent.inputValues, inputs[i].name)
             IN  IF supplied # Undefined THEN abiValues[2][i] = supplied
                 ELSE abiValues[2][i] = CanonicalZero(inputs[i].type)

\* ---- C1
\* C1: for every intent x, the call multiSend([x]) hands to
\* execTransactionFromModule has the to, value and data of encodeSingle(x) and
\* x's declared operation (CALL when it declares none), and is not a
\* relay-wrapped multiSend call.
C1_SinglePassthrough ==
  (Dispatching /\ Len(transactions) = 1 /\ IsOk(encodeSingle(transactions[1]))) =>
    LET x == transactions[1]
        single == encodeSingle(x)[2]
    IN  /\ Len(execCalls) = 1
        /\ execCalls[1].to = single.to
        /\ execCalls[1].value = single.value
        /\ execCalls[1].data = single.data
        /\ execCalls[1].operation = DeclaredOperation(x)
        /\ ~RelayWrapped(execCalls[1])

\* ---- C2
\* C2: the blob encodeMultiSend packs for N intents holds exactly N records, in
\* input order, and the i-th record's to, value and data are those encodeSingle
\* gives for the i-th intent and its operation is the intent's declared
\* operation (CALL when it declares none).
C2_RecordsAreNormalizedIntents ==
  (Returned("encodeMultiSend") /\ IsOk(ret)) =>
    LET records == unpackRecords(PackedBlob(ret[2].data))
    IN  /\ IsOk(records)
        /\ Len(records[2]) = Len(transactions)
        /\ \A i \in 1..Len(transactions) :
             LET single == encodeSingle(transactions[i])
             IN  /\ IsOk(single)
                 /\ records[2][i].to = single[2].to
                 /\ records[2][i].value = single[2].value
                 /\ records[2][i].data = single[2].data
                 /\ records[2][i].operation = DeclaredOperation(transactions[i])

\* ---- C3
\* C3: whenever encodeMultiSend returns a call for two or more intents, the call
\* has operation = DELEGATECALL, value = 0 and to = the relay address: the
\* caller's address argument when it is a non-empty string, the fixed default
\* when it is absent or empty; the operations of the sub-calls do not matter.
C3_BatchIsDelegateCallToRelay ==
  (Returned("encodeMultiSend") /\ Len(transactions) >= 2 /\ IsOk(ret)) =>
    /\ ret[2].operation = Num(<<1>>)
    /\ ret[2].value = Num(<<>>)
    /\ ret[2].to = RelayFor(relayArg)

C3_Witness ==
  /\ Returned("encodeMultiSend")
  /\ Len(transactions) = 2
  /\ relayArg = Str(<<>>)
  /\ Field(transactions[1], "operation") = Undefined
  /\ Field(transactions[2], "operation") = DELEGATE_CALL
  /\ IsOk(ret)
  /\ ret[2].to = MULTI_SEND_CONTRACT_ADDRESS

\* ---- C6
\* an intent that cannot be encoded: its recipient is not an address, a value
\* of it does not fit a uint256, or its function signature is not in its ABI
TooLarge(v) == v[1] = "number" /\ Len(v[2]) > 32
Unencodable(x) ==
  \/ ~isAddress(Field(x, "to"))
  \/ \E key \in {"value", "amount", "tokenId"} : TooLarge(Field(x, key))
  \/ x.type = "callContract" /\ x.functionSignature \notin Signatures(x.abi)

\* C6: multiSend of a list (of any length) that holds an intent that cannot be
\* encoded fails before execTransactionFromModule is invoked, so that no
\* external call is made: nothing is ever sent to the avatar for such a list.
C6_NoCallForUnencodable ==
  (Dispatching /\ \E i \in 1..Len(transactions) : Unencodable(transactions[i])) =>
    sent = <<>>

\* ---- C7
\* C7: a multiSend whose encoding succeeds invokes execTransactionFromModule
\* exactly once, with the module transaction's to, value, data and operation and
\* the caller's overrides ({} when none are given); what comes back, a response
\* or a failure, is what multiSend returns, and nothing is invoked a second
\* time; a multiSend whose encoding throws invokes nothing.
C7_SingleShotPassThrough ==
  /\ Len(execCalls) <= 1
  /\ Len(sent) <= Len(execCalls)
  /\ pc \in {"idle", "constructed"} => execCalls = <<>>
  /\ Dispatching =>
       LET moduleTx == multiSendModuleTx(transactions, multiSendContractAddress)
       IN  IF IsOk(moduleTx)
           THEN /\ Len(execCalls) = 1
                /\ execCalls[1].to = moduleTx[2].to
                /\ execCalls[1].value = moduleTx[2].value
                /\ execCalls[1].data = moduleTx[2].data
                /\ execCalls[1].operation = moduleTx[2].operation
                /\ execCalls[1].overrides =
                     (IF overridesArg = Undefined THEN Obj({}) ELSE overridesArg)
                /\ pc = "await" => ret = Nothing /\ execOutcome = Nothing
                /\ pc = "returned" => execOutcome # Nothing /\ ret = execOutcome
                /\ pc = "returned" /\ sent # <<>> =>
                     /\ execOutcome \in ExecOutcomes
                     /\ sent[1].overrides = execCalls[1].overrides
           ELSE /\ pc = "returned"
                /\ execCalls = <<>>
                /\ execOutcome = Nothing
                /\ ret = moduleTx

C7_Witness ==
  /\ Dispatching
  /\ pc = "returned"
  /\ Len(execCalls) = 1
  /\ overridesArg # Undefined
  /\ execCalls[1].overrides = overridesArg
  /\ sent # <<>>
  /\ IsThrow(execOutcome)
  /\ ret = execOutcome

\* ---- C9
\* the byte count of the data an input record carries: none when it has no data
DataBytes(x) ==
  IF Field(x, "data") = Undefined THEN 0 ELSE (Len(Field(x, "data")[2]) - 2) \div 2

RECURSIVE SumTo(_, _)
SumTo(f, n) == IF n = 0 THEN 0 ELSE SumTo(f, n - 1) + f[n]

\* C9: every record of the blob encodeMultiSend builds is 1 + 20 + 32 + 32 + n
\* bytes long, n the byte count of its data and the value of its data-length
\* field; the blob is the records one after the other, so its length is the sum
\* of the records' lengths, and a reader that walks it by the data-length
\* fields lands on each next record and on the blob's end after the last.
C9_PackedLayout ==
  (Returned("encodeMultiSend") /\ IsOk(ret)) =>
    LET blob == PackedBlob(ret[2].data)
        records == unpackRecords(blob)
        n == [i \in 1..Len(transactions) |-> DataBytes(transactions[i])]
    IN  /\ IsOk(records)
        /\ Len(records[2]) = Len(transactions)
        /\ \A i \in 1..Len(transactions) :
             /\ records[2][i].dataLength = n[i]
             /\ records[2][i].size = 1 + 20 + 32 + 32 + n[i]
             /\ Len(arrayify(encodePacked(transactions[i])[2][2])) = 85 + n[i]
        /\ Len(blob) = SumTo([i \in 1..Len(transactions) |-> 85 + n[i]], Len(transactions))

C9_Witness ==
  /\ Returned("encodeMultiSend")
  /\ IsOk(ret)
  /\ Len(transactions) = 2
  /\ DataBytes(transactions[1]) = 2
  /\ DataBytes(transactions[2]) = 0
  /\ Len(PackedBlob(ret[2].data)) = 87 + 85

\* ---- C10
\* C10: multiSend passes a list through only when it holds exactly one intent:
\* for the empty list it throws nothing and dispatches one call, a delegate call
\* of multiSend(bytes) with an empty blob to the relay address with value 0; and
\* encodeMultiSend itself returns a relay-wrapped delegate call whenever it
\* returns, for a list of 0 or 1 intents too (and always for the empty list).
C10_PassthroughOnlyForOne ==
  /\ (Dispatching /\ Len(transactions) = 0) =>
       /\ Len(execCalls) = 1
       /\ RelayWrapped(execCalls[1])
       /\ execCalls[1].to = RelayFor(multiSendContractAddress)
       /\ execCalls[1].value = Num(Zero)
       /\ Len(PackedBlob(execCalls[1].data)) = 0
       /\ pc = "returned" => Len(sent) = 1 /\ ret = execOutcome
  /\ (Dispatching /\ Len(transactions) # 1 /\ Len(execCalls) = 1) =>
       RelayWrapped(execCalls[1])
  /\ Returned("encodeMultiSend") =>
       /\ Len(transactions) = 0 => IsOk(ret) /\ Len(PackedBlob(ret[2].data)) = 0
       /\ IsOk(ret) => RelayWrapped(ret[2]) /\ ret[2].to = RelayFor(relayArg)

C10_Witness ==
  /\ Dispatching
  /\ Len(transactions) = 0
  /\ pc = "returned"
  /\ Len(execCalls) = 1
  /\ execCalls[1].to = CustomRelay
  /\ IsOk(ret)

====
